---- MODULE Spec2Model ----
(***************************************************************************)
(* A model of src/ocr.py: the batch driver main, the document processor    *)
(* process_pdf and its page pipeline get_pages, resize_page, process_img,  *)
(* extract_text, with the output files on disk and the log stream.         *)
(*                                                                         *)
(* Text is a sequence of one-character tokens; the tokens LF, CR and SP    *)
(* stand for line feed, carriage return and space. The collaborators       *)
(* (rasterizer, OpenCV calls, OCR engine, file write) are deterministic    *)
(* black boxes that either return or raise; which of them raises, and on   *)
(* which page, is part of the description of a document in the data        *)
(* directory.                                                              *)
(***************************************************************************)
EXTENDS Integers, Sequences, FiniteSets, TLC

VARIABLES
  data,     \* the data directory: file name -> [npages, fail]
  cfg,      \* Config and os.linesep: [max_pages, use_gpu, target_width, linesep]
  pc,       \* position of main: "start", "loop", "pages", "done" ("fn": a function probe)
  pdfs,     \* main: list of discovered documents, in enumeration order
  idx,      \* main: index in pdfs of the document of `for pdf in pdfs`
  pages,    \* process_pdf: pages the generator of get_pages has yet to yield
  i,        \* process_pdf: loop variable i, [bound, val]; unbound before the first page
  totals,   \* process_pdf: [chars, lines]
  disk,     \* the output directory: path -> text
  log,      \* the lines printed by log/debug, in order
  writes,   \* the calls of write_text of this run, in order: [name, page, path, text]
  calls,    \* the calls of process_pdf of this run, in order: the document names
  run,      \* number of the run (process) of main
  prev,     \* what the previous run left: [max_pages, disk, writes]
  probe     \* input and output of a function applied on its own

vars == <<data, cfg, pc, pdfs, idx, pages, i, totals, disk, log, writes, calls, run, prev, probe>>

-----------------------------------------------------------------------------
(* Bounds *)

MaxDocs == 2
MaxPages == 2
MaxRuns == 2
MaxDim == 5
MaxRawLen == 5
MaxStemLen == 3
MaxIdx == 11

-----------------------------------------------------------------------------
(* Text *)

Min(a, b) == IF a < b THEN a ELSE b

Max(a, b) == IF a > b THEN a ELSE b

LF == "LF"

CR == "CR"

SP == "SP"

Digits == <<"0", "1", "2", "3", "4", "5", "6", "7", "8", "9">>

\* str(n) of an f-string, n >= 0
RECURSIVE Str(_)
Str(n) == IF n < 10 THEN <<Digits[n + 1]>> ELSE Str(n \div 10) \o <<Digits[(n % 10) + 1]>>

IsBreak(c) == c \in {LF, CR}

IsSpace(c) == c \in {LF, CR, SP}

\* str.splitlines(): LF, CR and CR LF end a line; no empty last line
RECURSIVE SplitFrom(_, _, _)
SplitFrom(text, k, cur) ==
  IF k > Len(text) THEN (IF cur = <<>> THEN <<>> ELSE <<cur>>)
  ELSE IF text[k] = CR /\ k < Len(text) /\ text[k + 1] = LF
       THEN <<cur>> \o SplitFrom(text, k + 2, <<>>)
  ELSE IF IsBreak(text[k]) THEN <<cur>> \o SplitFrom(text, k + 1, <<>>)
  ELSE SplitFrom(text, k + 1, Append(cur, text[k]))

SplitLines(text) == SplitFrom(text, 1, <<>>)

\* StripNonEmpty without the strip: the truth value of line
NonEmpty(line) == line # <<>>

\* truth value of line.strip(): some character is not whitespace
StripNonEmpty(line) == \E k \in 1..Len(line) : ~IsSpace(line[k])

RECURSIVE Keep(_)
Keep(ls) ==
  IF ls = <<>> THEN <<>>
  ELSE (IF StripNonEmpty(Head(ls)) THEN <<Head(ls)>> ELSE <<>>) \o Keep(Tail(ls))

RECURSIVE Join(_, _)
Join(sep, ls) ==
  IF ls = <<>> THEN <<>>
  ELSE IF Len(ls) = 1 THEN Head(ls)
  ELSE Head(ls) \o sep \o Join(sep, Tail(ls))

RECURSIVE SumLen(_)
SumLen(ls) == IF ls = <<>> THEN 0 ELSE Len(Head(ls)) + SumLen(Tail(ls))

\* os.linesep (POSIX)
LineSep == <<LF>>

-----------------------------------------------------------------------------
(* Configuration defaults and the environment *)

Dpi == 500

TargetWidth == 1800

KernelSize == 1

\* a US-letter page (8.5in x 11in) rasterized at Config.dpi
PageW == (17 * Dpi) \div 2

PageH == 11 * Dpi

\* the steps of one page that call a collaborator which may raise
CvSteps == {"bgr", "gray", "open", "close", "or", "get", "grayget"}

PageSteps == CvSteps \cup {"ocr", "write"}

NoFail == [page |-> 0, steps |-> {}]

RasterFail == [page |-> 0, steps |-> {"raster"}]

\* the steps that raise on page k of a document
Failing(doc, k) == IF doc.fail.page = k THEN doc.fail.steps ELSE {}

\* the text printed on page k of a document, as the OCR engine reads it (the field
\* raw of a page image); pages of even number hold no text
RawOf(name, k) ==
  IF k % 2 = 0 THEN <<SP, LF>>
  ELSE <<LF>> \o name \o <<LF, SP, LF>> \o <<"p">> \o Str(k) \o <<CR, LF>>

\* convert_from_path(path, dpi): the page images of a document, in document order
Rasterize(name, doc) ==
  [k \in 1..doc.npages |->
     [w |-> PageW, h |-> PageH, pix |-> <<"rgb">>, raw |-> RawOf(name, k)]]

-----------------------------------------------------------------------------
(* The functions of ocr.py *)

\* seq[:m] of a Python list
Slice(ps, m) ==
  IF m >= 0 THEN SubSeq(ps, 1, Min(m, Len(ps))) ELSE SubSeq(ps, 1, Max(0, Len(ps) + m))

\* GetPages without the cap
GetPagesUncapped(name, doc, c) == Rasterize(name, doc)

\* get_pages: list(convert_from_path(...)[:Config.max_pages])
GetPages(name, doc, c) == Slice(Rasterize(name, doc), c.max_pages)

\* Scale without the floor at 1
ScaleUnfloored(w, t) == t \div w

\* resize_page: scale = max(1, int(target_width / w)); new_size = (scale*w, scale*h)
Scale(w, t) == Max(1, t \div w)

ResizePage(page, t) ==
  [page EXCEPT !.w = Scale(page.w, t) * page.w, !.h = Scale(page.w, t) * page.h]

\* cv2.cvtColor
CvtColor(pix, code) == Append(pix, code)

\* cv2.morphologyEx with a k x k kernel of ones: a 1 x 1 kernel changes no pixel
MorphologyEx(pix, op, k) == IF k = 1 THEN pix ELSE Append(pix, op)

\* cv2.bitwise_or
BitwiseOr(a, b) == IF a = b THEN a ELSE a \o <<"or">> \o b

\* the statements of process_img in the try block; which of them raises cv2.error
TrySteps(gpu) == IF gpu THEN {"open", "close", "or", "get"} ELSE {"open", "close", "or"}

\* ProcessImg without the try block: every error leaves process_img
ProcessImgNoTry(img, gpu, failing) ==
  LET l1 == << <<"debug", "Converting to OpenCV format">>,
               <<"debug", IF gpu THEN "Using GPU acceleration" ELSE "Using CPU processing">> >>
      l2 == l1 \o << <<"debug", "Converting to grayscale">>,
                     <<"debug", "Applying morphological operations">> >>
      gray == [img EXCEPT !.pix = CvtColor(CvtColor(img.pix, "bgr"), "gray")]
  IN  IF ({"bgr", "gray"} \cap failing) # {} THEN [raised |-> TRUE, logs |-> l1, img |-> img]
      ELSE IF (TrySteps(gpu) \cap failing) # {} THEN [raised |-> TRUE, logs |-> l2, img |-> img]
      ELSE [raised |-> FALSE, logs |-> l2, img |-> gray]

\* process_img: [raised, logs, img]; logs are <<level, msg>>
ProcessImg(img, gpu, failing) ==
  LET l1 == << <<"debug", "Converting to OpenCV format">>,
               <<"debug", IF gpu THEN "Using GPU acceleration" ELSE "Using CPU processing">> >>
      bgr == CvtColor(img.pix, "bgr")
      gray == [img EXCEPT !.pix = CvtColor(bgr, "gray")]
      l2 == l1 \o << <<"debug", "Converting to grayscale">>,
                     <<"debug", "Applying morphological operations">> >>
      opened == MorphologyEx(gray.pix, "open", KernelSize)
      morph == MorphologyEx(opened, "close", KernelSize)
      result == [img EXCEPT !.pix = BitwiseOr(gray.pix, morph)]
      l3 == l2 \o << <<"error", "OpenCV error">>,
                     <<"warn", "Falling back to grayscale only">> >>
  IN  IF ({"bgr", "gray"} \cap failing) # {}
        THEN [raised |-> TRUE, logs |-> l1, img |-> img]
      ELSE IF (TrySteps(gpu) \cap failing) = {}
        THEN [raised |-> FALSE, logs |-> l2, img |-> result]
      ELSE IF gpu /\ "grayget" \in failing
        THEN [raised |-> TRUE, logs |-> l3, img |-> img]
      ELSE [raised |-> FALSE, logs |-> l3, img |-> gray]

\* the list comprehension and the join of extract_text
FilterText(raw, sep) == Join(sep, Keep(SplitLines(raw)))

\* extract_text: [raised, logs, text, nlines]; image_to_string raises or returns img.raw
ExtractText(img, sep, failing) ==
  LET l1 == << <<"debug", "Running Tesseract OCR">> >>
      raw == img.raw
  IN  IF "ocr" \in failing
        THEN [raised |-> TRUE, logs |-> l1, text |-> <<>>, nlines |-> 0]
      ELSE [raised |-> FALSE, logs |-> Append(l1, <<"debug", "Extracted lines">>),
            text |-> FilterText(raw, sep), nlines |-> Len(Keep(SplitLines(raw)))]

\* PurePath.stem: the name up to its last dot, when that dot is neither first nor last
LastDot(name) ==
  LET ds == {k \in 1..Len(name) : name[k] = "."}
  IN  IF ds = {} THEN 0 ELSE CHOOSE k \in ds : \A j \in ds : j <= k

Stem(name) ==
  IF 1 < LastDot(name) /\ LastDot(name) < Len(name)
    THEN SubSeq(name, 1, LastDot(name) - 1) ELSE name

\* Path.glob('*.pdf')
MatchPdf(name) ==
  Len(name) >= 4 /\ SubSeq(name, Len(name) - 3, Len(name)) = <<".", "p", "d", "f">>

Discovered(dir) == {n \in DOMAIN dir : MatchPdf(n)}

\* OutPath without the "_p" between the stem and the page index
OutPathNoSep(stem, k) ==
  <<"output/", "o", "u", "t", "_">> \o stem \o Str(k) \o <<".", "t", "x", "t">>

\* Config.dirname / "output" / f"out_{pdf_path.stem}_p{i}.txt"
OutPath(stem, k) ==
  <<"output/", "o", "u", "t", "_">> \o stem \o <<"_", "p">> \o Str(k) \o <<".", "t", "x", "t">>

\* WriteText in append mode
WriteTextAppend(d, path, text) ==
  [q \in (DOMAIN d) \cup {path} |->
     IF q # path THEN d[q] ELSE IF path \in DOMAIN d THEN d[path] \o text ELSE text]

\* Path.write_text: the file holds the text and nothing else
WriteText(d, path, text) == [q \in (DOMAIN d) \cup {path} |-> IF q = path THEN text ELSE d[q]]

-----------------------------------------------------------------------------
(* The log stream *)

\* one printed line; name and page tell which document and page it was printed for
E(level, msg, name, page, a, b, err) ==
  [level |-> level, msg |-> msg, name |-> name, page |-> page, a |-> a, b |-> b, err |-> err]

RECURSIVE Lines(_, _, _)
Lines(ls, name, page) ==
  IF ls = <<>> THEN <<>>
  ELSE <<E(Head(ls)[1], Head(ls)[2], name, page, 0, 0, "")>> \o Lines(Tail(ls), name, page)

\* main, `except Exception as e`: the line logged for the document
ErrorLine(name, err) == E("error", "Error processing", name, 0, 0, 0, err)

\* AfterError with the error raised again: main ends before its last line
AfterErrorAbort(k, ps) == [pc |-> "done", idx |-> k, pages |-> <<>>]

\* AfterError with the try inside the page loop: the next page of the same document
AfterErrorNextPage(k, ps) ==
  IF ps = <<>> THEN [pc |-> "loop", idx |-> k + 1, pages |-> <<>>]
  ELSE [pc |-> "pages", idx |-> k, pages |-> Tail(ps)]

\* where an error raised in process_pdf with the pages ps left leads: it leaves the
\* page loop, the except clause of main logs it, and the for loop of main goes on
\* with the next document
AfterError(k, ps) == [pc |-> "loop", idx |-> k + 1, pages |-> <<>>]

\* main, after process_pdf returns
AfterReturn(k) == [pc |-> "loop", idx |-> k + 1]

-----------------------------------------------------------------------------
(* One iteration of the page loop of process_pdf (lines 106-128) *)

\* [raised, err, logs, wrote, nlines, chars]: wrote is the list of the calls of
\* write_text that completed (none or one)
PageRun(name, k, page, c, failing) ==
  LET resized == ResizePage(page, c.target_width)
      l1 == << E("debug", "Page", name, k, 0, 0, ""),
               E("debug", "Resizing page...", name, k, 0, 0, ""),
               E("debug", "Resizing page from", name, k, resized.w, resized.h, ""),
               E("debug", "Processing image...", name, k, 0, 0, "") >>
      pi == ProcessImg(resized, c.use_gpu, failing)
      l2 == l1 \o Lines(pi.logs, name, k)
      l3 == Append(l2, E("debug", "Extracting text...", name, k, 0, 0, ""))
      ex == ExtractText(pi.img, c.linesep, failing)
      l4 == l3 \o Lines(ex.logs, name, k)
      lines == SplitLines(ex.text)
      chars == SumLen(lines)
      out_path == OutPath(Stem(name), k)
      none == [raised |-> TRUE, err |-> "", logs |-> <<>>, wrote |-> <<>>, nlines |-> 0,
               chars |-> 0]
  IN  IF pi.raised THEN [none EXCEPT !.err = "cv2.error", !.logs = l2]
      ELSE IF ex.raised THEN [none EXCEPT !.err = "TesseractError", !.logs = l4]
      ELSE IF "write" \in failing THEN [none EXCEPT !.err = "OSError", !.logs = l4]
      ELSE [raised |-> FALSE, err |-> "",
            logs |-> Append(l4, E("info", "Page done", name, k, Len(lines), chars, "")),
            wrote |-> << [name |-> name, page |-> k, path |-> out_path, text |-> ex.text] >>,
            nlines |-> Len(lines), chars |-> chars]

\* AddTotals with = for +=
SetTotals(t, r) == [chars |-> r.chars, lines |-> r.nlines]

\* total_chars += chars; total_lines += len(lines)
AddTotals(t, r) == [chars |-> t.chars + r.chars, lines |-> t.lines + r.nlines]

\* the files after the calls ws of write_text
RECURSIVE Written(_, _)
Written(d, ws) ==
  IF ws = <<>> THEN d ELSE Written(WriteText(d, Head(ws).path, Head(ws).text), Tail(ws))

-----------------------------------------------------------------------------
(* Actions *)

Unbound == [bound |-> FALSE, val |-> 0]

\* the orders in which glob may yield a set of names
Orders(S) == {q \in [1..Cardinality(S) -> S] : \A a, b \in 1..Cardinality(S) : a # b => q[a] # q[b]}

\* main, lines 137-146
Start ==
  /\ pc = "start"
  /\ \E order \in Orders(Discovered(data)) :
       /\ pdfs' = order
       /\ log' = log \o << E("info", "Starting OCR process", <<>>, 0, 0, 0, ""),
                           E("debug", "Max pages", <<>>, 0, cfg.max_pages, 0, ""),
                           E("debug", "Found", <<>>, 0, Len(order), 0, "") >>
  /\ idx' = 1
  /\ pc' = "loop"
  /\ UNCHANGED <<data, cfg, pages, i, totals, disk, writes, calls, run, prev, probe>>

\* the lines logged on entry of process_pdf (101) and of get_pages (40)
EntryLines(name) ==
  << E("info", "Processing PDF", name, 0, 0, 0, ""), E("info", "Processing PDF", name, 0, 0, 0, "") >>

\* main calls process_pdf(pdf); lines 101-106 and get_pages return the pages
EnterPdf ==
  /\ pc = "loop" /\ idx <= Len(pdfs)
  /\ "raster" \notin data[pdfs[idx]].fail.steps
  /\ LET name == pdfs[idx]
         ps == GetPages(name, data[name], cfg)
     IN  /\ pages' = ps
         /\ log' = log \o EntryLines(name)
                       \o <<E("debug", "Extracted pages", name, 0, Len(ps), Dpi, "")>>
  /\ totals' = [chars |-> 0, lines |-> 0]
  /\ i' = Unbound
  /\ pc' = "pages"
  /\ calls' = Append(calls, pdfs[idx])
  /\ UNCHANGED <<data, cfg, pdfs, idx, disk, writes, run, prev, probe>>

\* convert_from_path raises: the error leaves get_pages and process_pdf, main logs it
EnterPdfRaise ==
  /\ pc = "loop" /\ idx <= Len(pdfs)
  /\ "raster" \in data[pdfs[idx]].fail.steps
  /\ log' = log \o EntryLines(pdfs[idx]) \o <<ErrorLine(pdfs[idx], "PDFPageCountError")>>
  /\ totals' = [chars |-> 0, lines |-> 0]
  /\ i' = Unbound
  /\ pages' = AfterError(idx, <<>>).pages
  /\ pc' = AfterError(idx, <<>>).pc
  /\ idx' = AfterError(idx, <<>>).idx
  /\ calls' = Append(calls, pdfs[idx])
  /\ UNCHANGED <<data, cfg, pdfs, disk, writes, run, prev, probe>>

\* one iteration of the page loop that reaches line 128
PageDone ==
  /\ pc = "pages" /\ pages # <<>>
  /\ LET name == pdfs[idx]
         k == IF i.bound THEN i.val + 1 ELSE 1
         r == PageRun(name, k, Head(pages), cfg, Failing(data[name], k))
     IN  /\ ~r.raised
         /\ i' = [bound |-> TRUE, val |-> k]
         /\ log' = log \o r.logs
         /\ disk' = Written(disk, r.wrote)
         /\ writes' = writes \o r.wrote
         /\ totals' = AddTotals(totals, r)
  /\ pages' = Tail(pages)
  /\ UNCHANGED <<data, cfg, pc, pdfs, idx, calls, run, prev, probe>>

\* one iteration of the page loop in which a step raises: the error leaves
\* process_pdf, main logs it
PageRaise ==
  /\ pc = "pages" /\ pages # <<>>
  /\ LET name == pdfs[idx]
         k == IF i.bound THEN i.val + 1 ELSE 1
         r == PageRun(name, k, Head(pages), cfg, Failing(data[name], k))
     IN  /\ r.raised
         /\ i' = [bound |-> TRUE, val |-> k]
         /\ log' = log \o r.logs \o <<ErrorLine(name, r.err)>>
         /\ disk' = Written(disk, r.wrote)
         /\ writes' = writes \o r.wrote
  /\ pages' = AfterError(idx, pages).pages
  /\ pc' = AfterError(idx, pages).pc
  /\ idx' = AfterError(idx, pages).idx
  /\ UNCHANGED <<data, cfg, pdfs, totals, calls, run, prev, probe>>

\* process_pdf, lines 130-134, with i bound
Summarize ==
  /\ pc = "pages" /\ pages = <<>>
  /\ i.bound
  /\ LET name == pdfs[idx]
     IN  log' = log \o << E("info", "Completed", name, 0, 0, 0, ""),
                          E("debug", "Average", name, 0, IF i.val > 0 THEN i.val ELSE 0, 0, ""),
                          E("debug", "Total", name, 0, totals.lines, totals.chars, "") >>
  /\ pc' = AfterReturn(idx).pc
  /\ idx' = AfterReturn(idx).idx
  /\ UNCHANGED <<data, cfg, pdfs, pages, i, totals, disk, writes, calls, run, prev, probe>>

\* process_pdf, line 131, with i unbound: `i > 0` raises UnboundLocalError, main logs it
SummarizeRaise ==
  /\ pc = "pages" /\ pages = <<>>
  /\ ~i.bound
  /\ log' = Append(log, ErrorLine(pdfs[idx], "UnboundLocalError"))
  /\ pages' = AfterError(idx, pages).pages
  /\ pc' = AfterError(idx, pages).pc
  /\ idx' = AfterError(idx, pages).idx
  /\ UNCHANGED <<data, cfg, pdfs, i, totals, disk, writes, calls, run, prev, probe>>

\* main, lines 154-155
Finish ==
  /\ pc = "loop" /\ idx > Len(pdfs)
  /\ log' = Append(log, E("info", "All done", <<>>, 0, 0, 0, ""))
  /\ pc' = "done"
  /\ UNCHANGED <<data, cfg, pdfs, idx, pages, i, totals, disk, writes, calls, run, prev, probe>>

\* values of MAX_PAGES
Caps == (0 - 1)..(MaxPages + 1)

\* a later run of main, possibly with another MAX_PAGES; the files stay on disk
Rerun ==
  /\ pc = "done" /\ run < MaxRuns
  /\ \E m \in Caps : cfg' = [cfg EXCEPT !.max_pages = m]
  /\ prev' = [max_pages |-> cfg.max_pages, disk |-> disk, writes |-> writes]
  /\ run' = run + 1
  /\ pc' = "start"
  /\ pdfs' = <<>>
  /\ idx' = 1
  /\ pages' = <<>>
  /\ i' = Unbound
  /\ totals' = [chars |-> 0, lines |-> 0]
  /\ log' = <<>>
  /\ writes' = <<>>
  /\ calls' = <<>>
  /\ UNCHANGED <<data, disk, probe>>

-----------------------------------------------------------------------------
(* Functions applied on their own *)

ApplyResize ==
  /\ pc = "fn" /\ probe.fn = "resize_page" /\ ~probe.done
  /\ probe' = [probe EXCEPT !.done = TRUE,
                            !.out = ResizePage(probe.img, probe.t)]
  /\ UNCHANGED <<data, cfg, pc, pdfs, idx, pages, i, totals, disk, log, writes, calls, run, prev>>

ApplyExtract ==
  /\ pc = "fn" /\ probe.fn = "extract_text" /\ ~probe.done
  /\ probe' = [probe EXCEPT !.done = TRUE,
                            !.out = ExtractText(probe.img, probe.sep, {}).text]
  /\ UNCHANGED <<data, cfg, pc, pdfs, idx, pages, i, totals, disk, log, writes, calls, run, prev>>

ApplyPath ==
  /\ pc = "fn" /\ probe.fn = "out_path" /\ ~probe.done
  /\ probe' = [probe EXCEPT !.done = TRUE, !.out = OutPath(probe.stem, probe.k)]
  /\ UNCHANGED <<data, cfg, pc, pdfs, idx, pages, i, totals, disk, log, writes, calls, run, prev>>

-----------------------------------------------------------------------------
(* Initial states *)

\* the sequences over S of length lo..hi
SeqsOf(S, lo, hi) == UNION {[1..n -> S] : n \in lo..hi}

APdf == <<"a", ".", "p", "d", "f">>

DotPdf == <<".", "p", "d", "f">>

DotPdfPdf == <<".", "p", "d", "f", ".", "p", "d", "f">>

ATxt == <<"a", ".", "t", "x", "t">>

PdfNames == {APdf, DotPdf, DotPdfPdf}

EmptyDisk == [q \in {} |-> <<>>]

\* a document: its number of pages and the steps that raise, on at most one page
Fails(p, sets) == {NoFail, RasterFail} \cup {[page |-> k, steps |-> S] : k \in 1..p, S \in sets}

DocsOf(sets) == UNION {{[npages |-> p, fail |-> f] : f \in Fails(p, sets)} : p \in 0..MaxPages}

\* one failing step of a page, or a failing step of the try block and the download
\* of the fallback
FineSets ==
  {{s} : s \in PageSteps} \cup {{s, "grayget"} : s \in {"open", "close", "or", "get"}}

CoarseSets == {{"ocr"}, {"write"}}

\* the data directories with at most n documents, beside a file that is no PDF
Dirs(n, sets) ==
  UNION {{[f \in S \cup {ATxt} |-> IF f = ATxt THEN [npages |-> 0, fail |-> NoFail] ELSE d[f]] :
            d \in [S -> DocsOf(sets)]} :
         S \in {T \in SUBSET PdfNames : Cardinality(T) <= n}}

InitMain ==
  /\ pc = "start"
  /\ pdfs = <<>>
  /\ idx = 1
  /\ pages = <<>>
  /\ i = Unbound
  /\ totals = [chars |-> 0, lines |-> 0]
  /\ disk = EmptyDisk
  /\ log = <<>>
  /\ writes = <<>>
  /\ calls = <<>>
  /\ run = 1
  /\ prev = [max_pages |-> 0, disk |-> EmptyDisk, writes |-> <<>>]
  /\ probe = [fn |-> "none"]

\* a batch of up to MaxDocs documents
Init ==
  /\ InitMain
  /\ data \in Dirs(MaxDocs, CoarseSets)
  /\ cfg \in [max_pages : {MaxPages}, use_gpu : {FALSE},
              target_width : {TargetWidth}, linesep : {LineSep}]

\* one document, any failing step, any configuration
InitDoc ==
  /\ InitMain
  /\ data \in Dirs(1, FineSets)
  /\ cfg \in [max_pages : Caps, use_gpu : BOOLEAN,
              target_width : {TargetWidth}, linesep : {LineSep}]

Chars == {"x", SP, LF, CR}

StemChars == {"_", "p", "1"}

Probes ==
  [fn : {"resize_page"}, done : {FALSE}, out : {<<>>}, t : 1..MaxDim,
   img : [w : 1..MaxDim, h : 1..MaxDim, pix : {<<"rgb">>}, raw : {<<>>}]]
  \cup [fn : {"extract_text"}, done : {FALSE}, out : {<<>>}, sep : {<<LF>>, <<CR, LF>>},
        img : [w : {1}, h : {1}, pix : {<<"rgb">>}, raw : SeqsOf(Chars, 0, MaxRawLen)]]
  \cup [fn : {"out_path"}, done : {FALSE}, out : {<<>>}, k : 1..MaxIdx,
        stem : SeqsOf(StemChars, 1, MaxStemLen)]

InitFn ==
  /\ pc = "fn"
  /\ probe \in Probes
  /\ data = [f \in {} |-> 0]
  /\ cfg = [max_pages |-> 0, use_gpu |-> FALSE, target_width |-> TargetWidth, linesep |-> LineSep]
  /\ pdfs = <<>>
  /\ idx = 1
  /\ pages = <<>>
  /\ i = Unbound
  /\ totals = [chars |-> 0, lines |-> 0]
  /\ disk = EmptyDisk
  /\ log = <<>>
  /\ writes = <<>>
  /\ calls = <<>>
  /\ run = 1
  /\ prev = [max_pages |-> 0, disk |-> EmptyDisk, writes |-> <<>>]

-----------------------------------------------------------------------------
(* Specifications *)

Next ==
  \/ Start
  \/ EnterPdf
  \/ EnterPdfRaise
  \/ PageDone
  \/ PageRaise
  \/ Summarize
  \/ SummarizeRaise
  \/ Finish

NextRerun == Next \/ Rerun

NextFn == ApplyResize \/ ApplyExtract \/ ApplyPath

\* one run of main over a batch
Spec == Init /\ [][Next]_vars

\* one run of main over one document
SpecDoc == InitDoc /\ [][Next]_vars

\* runs of main over one document, one after the other
SpecRerun == InitDoc /\ [][NextRerun]_vars

\* resize_page, extract_text and the output path, each applied to an input
SpecFn == InitFn /\ [][NextFn]_vars

-----------------------------------------------------------------------------
(* Properties of the functions *)

ResizeDone == pc = "fn" /\ probe.fn = "resize_page" /\ probe.done

\* floor(t / w), from its definition
FloorDiv(t, w) == CHOOSE q \in 0..t : q * w <= t /\ t < (q + 1) * w

\* C6: for positive w, h and target width t, resize_page produces (s*w, s*h) with
\* s = max(1, floor(t / w)); so the width never shrinks, s = 1 when w > t, and the
\* width does not exceed t when w <= t.
C6_ResizeFactor ==
  ResizeDone =>
    LET w == probe.img.w
        h == probe.img.h
        t == probe.t
        s == IF FloorDiv(t, w) >= 1 THEN FloorDiv(t, w) ELSE 1
    IN  /\ probe.out.w = s * w
        /\ probe.out.h = s * h
        /\ probe.out.w >= w
        /\ (w > t => s = 1 /\ probe.out.w = w)
        /\ (w <= t => probe.out.w <= t)

C6_Witness ==
  /\ ResizeDone
  /\ probe.img.w = 2 /\ probe.img.h = 3 /\ probe.t = 5
  /\ probe.out.w = 4 /\ probe.out.h = 6

ExtractDone == pc = "fn" /\ probe.fn = "extract_text" /\ probe.done

\* the maximal stretches <<a, b>> of raw without a line break that hold a character
\* other than whitespace
ContentRuns(raw) ==
  {r \in (1..Len(raw)) \X (1..Len(raw)) :
     /\ r[1] <= r[2]
     /\ \A k \in r[1]..r[2] : raw[k] \notin {LF, CR}
     /\ (r[1] = 1 \/ raw[r[1] - 1] \in {LF, CR})
     /\ (r[2] = Len(raw) \/ raw[r[2] + 1] \in {LF, CR})
     /\ \E k \in r[1]..r[2] : raw[k] \notin {LF, CR, SP}}

\* the content runs that start at pos or later, in order, with sep between them
RECURSIVE RunsFrom(_, _, _)
RunsFrom(raw, sep, pos) ==
  LET later == {r \in ContentRuns(raw) : r[1] >= pos}
  IN  IF later = {} THEN <<>>
      ELSE LET r == CHOOSE x \in later : \A y \in later : x[1] <= y[1]
               rest == RunsFrom(raw, sep, r[2] + 1)
           IN  SubSeq(raw, r[1], r[2]) \o (IF rest = <<>> THEN <<>> ELSE sep \o rest)

\* C7: extract_text returns the lines of the raw OCR output that are neither empty
\* nor whitespace-only, in their order, joined by the line separator, with no
\* separator before the first or after the last; the empty string when there is none.
C7_ExtractNonBlankLines ==
  ExtractDone =>
    LET raw == probe.img.raw
    IN  /\ probe.out = RunsFrom(raw, probe.sep, 1)
        /\ (ContentRuns(raw) = {} <=> probe.out = <<>>)
        /\ (probe.out # <<>> =>
              /\ probe.out[1] \notin {LF, CR}
              /\ probe.out[Len(probe.out)] \notin {LF, CR})

C7_Witness ==
  /\ ExtractDone
  /\ probe.img.raw = <<"x", LF, SP, CR, "x">>
  /\ probe.sep = <<LF>>
  /\ probe.out = <<"x", LF, "x">>

PathDone == pc = "fn" /\ probe.fn = "out_path" /\ probe.done

\* C10: the path out_<stem>_p<i>.txt of a stem and a page index i >= 1 is the path of
\* no other pair of a stem and a page index, also when a stem ends in _p<digits>.
C10_PathsDistinct ==
  PathDone =>
    \A s \in SeqsOf(StemChars, 1, MaxStemLen) : \A j \in 1..MaxIdx :
      OutPath(s, j) = probe.out => s = probe.stem /\ j = probe.k

C10_Witness ==
  /\ PathDone
  /\ probe.stem = <<"_", "p", "1">>
  /\ probe.k = 11
  /\ probe.out = <<"output/", "o", "u", "t", "_", "_", "p", "1", "_", "p", "1", "1",
                   ".", "t", "x", "t">>

-----------------------------------------------------------------------------
(* What a run shows *)

\* the lines of the log with this message, printed for this document
Entries(msg, name) == {k \in 1..Len(log) : log[k].msg = msg /\ log[k].name = name}

\* the lines of the log printed for page k of a document
PageEntries(name, k) == {n \in 1..Len(log) : log[n].name = name /\ log[n].page = k}

ErrorsFor(name) == Cardinality(Entries("Error processing", name))

NCalls(name) == Cardinality({k \in 1..Len(calls) : calls[k] = name})

\* the call of process_pdf for the document has returned or raised
Finished(name) ==
  \E k \in 1..Len(calls) : calls[k] = name /\ (k < Len(calls) \/ pc \in {"loop", "done"})

\* the calls of write_text made for a document
RECURSIVE WritesIn(_, _)
WritesIn(ws, name) ==
  IF ws = <<>> THEN <<>>
  ELSE (IF Head(ws).name = name THEN <<Head(ws)>> ELSE <<>>) \o WritesIn(Tail(ws), name)

WritesOf(name) == WritesIn(writes, name)

RECURSIVE SumA(_)
SumA(S) == IF S = {} THEN 0 ELSE LET k == CHOOSE x \in S : TRUE IN log[k].a + SumA(S \ {k})

RECURSIVE SumB(_)
SumB(S) == IF S = {} THEN 0 ELSE LET k == CHOOSE x \in S : TRUE IN log[k].b + SumB(S \ {k})

\* the text extract_text returns for page k of a document
TextOf(name, k) == FilterText(RawOf(name, k), cfg.linesep)

-----------------------------------------------------------------------------
(* Properties of a run over one document *)

\* C2: with p pages and max_pages = m >= 0, a document none of whose page steps
\* raises gets exactly min(p, m) calls of write_text, for the pages 1..min(p, m) in
\* this order, each to its own file; in every state the pages written so far are
\* 1, 2, ... without gap or repeat.
C2_PageFiles ==
  \A name \in Discovered(data) :
    LET W == WritesOf(name)
        n == Min(data[name].npages, cfg.max_pages)
    IN  /\ \A k \in 1..Len(W) : W[k].page = k
        /\ (Finished(name) /\ cfg.max_pages >= 0 /\ data[name].fail = NoFail) =>
             /\ Len(W) = n
             /\ \A k \in 1..n : W[k].path = OutPath(Stem(name), k)
             /\ DOMAIN disk = {W[k].path : k \in 1..n}
             /\ Cardinality(DOMAIN disk) = n

C2_Witness ==
  /\ pc = "done"
  /\ APdf \in DOMAIN data
  /\ data[APdf].npages = 2 /\ data[APdf].fail = NoFail
  /\ cfg.max_pages = 1
  /\ Len(writes) = 1 /\ writes[1].page = 1
  /\ Cardinality(DOMAIN disk) = 1

\* C9 (as stated): a document that yields no page (no page in the PDF, or
\* max_pages = 0) is processed without error: no file, a summary of 0 lines and 0
\* chars with an average page time of 0, and no error logged for the document.
C9_ZeroPagesNoError ==
  \A name \in Discovered(data) :
    (/\ Finished(name)
     /\ "raster" \notin data[name].fail.steps
     /\ (data[name].npages = 0 \/ cfg.max_pages = 0)) =>
       /\ WritesOf(name) = <<>>
       /\ ErrorsFor(name) = 0
       /\ \E k \in Entries("Total", name) : log[k].a = 0 /\ log[k].b = 0
       /\ \E k \in Entries("Average", name) : log[k].a = 0

\* C5 (as stated), for the documents whose page loop ran: both when all the pages
\* complete and when a page step aborts the document, process_pdf logs the summary
\* with the counts of the pages processed before main goes on.
C5_SummaryAlways ==
  \A name \in Discovered(data) :
    (Finished(name) /\ Entries("Page", name) # {}) =>
      \E k \in Entries("Total", name) :
        /\ log[k].a = SumA(Entries("Page done", name))
        /\ log[k].b = SumB(Entries("Page done", name))

\* C5 (amended): the summary is logged exactly when the call of process_pdf raised
\* no error, that is when the document yielded at least one page and every page
\* reached the end of the loop body: then there is one summary, after the lines of
\* its pages, it counts all these pages, their lines and their chars, and main
\* goes on after it. When a step raises, or no page is yielded, there is no summary:
\* main logs one error for the document.
C5_SummaryOnCompletion ==
  \A name \in Discovered(data) :
    Finished(name) =>
      LET done == Entries("Page done", name)
          tot == Entries("Total", name)
          avg == Entries("Average", name)
          n == Len(GetPages(name, data[name], cfg))
          clean == /\ "raster" \notin data[name].fail.steps
                   /\ n >= 1
                   /\ Cardinality(done) = n
      IN  /\ (tot # {} <=> clean)
          /\ (ErrorsFor(name) = 0 <=> clean)
          /\ Cardinality(tot) + ErrorsFor(name) = 1
          /\ Cardinality(avg) = Cardinality(tot)
          /\ \A k \in tot :
               /\ log[k].a = SumA(done)
               /\ log[k].b = SumB(done)
               /\ \A d \in done : d < k
               /\ \A j \in avg : log[j].a = Cardinality(done) /\ j < k
               /\ \A j \in (k + 1)..Len(log) : log[j].name # name

C5_Witness ==
  /\ pc = "done"
  /\ APdf \in DOMAIN data
  /\ data[APdf].npages = 2 /\ data[APdf].fail = NoFail
  /\ cfg.max_pages = 2
  /\ \E k \in Entries("Total", APdf) : log[k].a = 2 /\ log[k].b = SumB(Entries("Page done", APdf))
  /\ ErrorsFor(APdf) = 0

C5_WitnessAbort ==
  /\ pc = "done"
  /\ APdf \in DOMAIN data
  /\ data[APdf].npages = 2 /\ data[APdf].fail = [page |-> 2, steps |-> {"ocr"}]
  /\ cfg.max_pages = 2
  /\ Cardinality(Entries("Page done", APdf)) = 1
  /\ Entries("Total", APdf) = {}
  /\ ErrorsFor(APdf) = 1

\* the page and the step of a document that raise, when it is an Extract or a Write
\* step of a page the document yields
AbortsAt(name, f) ==
  /\ data[name].fail.page = f
  /\ data[name].fail.steps \in {{"ocr"}, {"write"}}
  /\ f <= Len(GetPages(name, data[name], cfg))

CvFailedOn(name, f, S) ==
  /\ data[name].fail.page = f
  /\ (data[name].fail.steps \cap S) # {}
  /\ \E k \in PageEntries(name, f) : log[k].msg = "Processing image..."

Logged(name, f, msg) == \E k \in PageEntries(name, f) : log[k].msg = msg

\* C3 (as stated): whichever step of process_img raises (colour-order conversion,
\* greyscale conversion, open, close, OR-combination), on either path, process_img
\* does not raise: it logs the error and the fallback, and the page goes on to
\* text extraction.
C3_EnhanceNeverFatal ==
  \A name \in Discovered(data) : \A f \in 1..MaxPages :
    CvFailedOn(name, f, {"bgr", "gray", "open", "close", "or"}) =>
      /\ Logged(name, f, "OpenCV error")
      /\ Logged(name, f, "Falling back to grayscale only")
      /\ Logged(name, f, "Extracting text...")

\* the greyscale image process_img computes from page f of a document
GrayOf(name, f) ==
  [ResizePage(Rasterize(name, data[name])[f], cfg.target_width)
     EXCEPT !.pix = <<"rgb", "bgr", "gray">>]

\* C3 (amended): when the open, the close, the OR-combination or the download of
\* the result raises, and the download of the greyscale image in the fallback
\* (accelerated path) does not, process_img does not raise: it logs the error and
\* the fallback, returns the plain greyscale image, and the page goes on to text
\* extraction. When the colour-order or the greyscale conversion raises, the error
\* leaves process_img: the page is not extracted or written, and main logs the
\* error for the document.
C3_MorphFailureRecovered ==
  \A name \in Discovered(data) : \A f \in 1..MaxPages :
    LET steps == data[name].fail.steps
        r == ProcessImg(ResizePage(Rasterize(name, data[name])[f], cfg.target_width),
                        cfg.use_gpu, steps)
    IN  /\ (/\ CvFailedOn(name, f, TrySteps(cfg.use_gpu))
            /\ ~(cfg.use_gpu /\ "grayget" \in steps)) =>
              /\ Logged(name, f, "OpenCV error")
              /\ Logged(name, f, "Falling back to grayscale only")
              /\ Logged(name, f, "Extracting text...")
              /\ ~r.raised /\ r.img = GrayOf(name, f)
        /\ CvFailedOn(name, f, {"bgr", "gray"}) =>
              /\ ~Logged(name, f, "Falling back to grayscale only")
              /\ ~Logged(name, f, "Extracting text...")
              /\ ErrorsFor(name) = 1
              /\ Len(WritesOf(name)) = f - 1
              /\ r.raised

C3_Witness ==
  /\ pc = "done"
  /\ APdf \in DOMAIN data
  /\ data[APdf].npages = 1 /\ data[APdf].fail = [page |-> 1, steps |-> {"close"}]
  /\ cfg.max_pages = 1 /\ cfg.use_gpu
  /\ Logged(APdf, 1, "Falling back to grayscale only")
  /\ Logged(APdf, 1, "Page done")
  /\ Len(writes) = 1

-----------------------------------------------------------------------------
(* Properties of a rerun *)

\* C8: a second run over the unchanged document with the same max_pages >= 0 makes
\* the same calls of write_text and leaves the same files with the same content as
\* the first; with max_pages lowered from m to m' >= 0 the second run writes again,
\* with the same content, the pages up to m' that the first wrote, and the files of
\* the later pages stay as the first run left them.
C8_RerunIdempotent ==
  (pc = "done" /\ run > 1 /\ cfg.max_pages >= 0 /\ prev.max_pages >= cfg.max_pages) =>
    /\ disk = prev.disk
    /\ Len(writes) = Min(Len(prev.writes), cfg.max_pages)
    /\ writes = SubSeq(prev.writes, 1, Len(writes))
    /\ \A k \in (Len(writes) + 1)..Len(prev.writes) :
         /\ prev.writes[k].path \in DOMAIN disk
         /\ disk[prev.writes[k].path] = prev.writes[k].text
         /\ \A j \in 1..Len(writes) : writes[j].path # prev.writes[k].path
    /\ (cfg.max_pages = prev.max_pages => writes = prev.writes)

C8_Witness ==
  /\ pc = "done" /\ run = 2
  /\ APdf \in DOMAIN data
  /\ data[APdf].npages = 2 /\ data[APdf].fail = NoFail
  /\ prev.max_pages = 2 /\ cfg.max_pages = 1
  /\ Len(prev.writes) = 2 /\ Len(writes) = 1
  /\ DOMAIN disk = {OutPath(<<"a">>, 1), OutPath(<<"a">>, 2)}
  /\ disk[OutPath(<<"a">>, 1)] = <<"a", ".", "p", "d", "f", LF, "p", "1">>

-----------------------------------------------------------------------------
(* Properties of a run over a batch *)

\* the processing of the document raises a rasterization, extraction or write error
Fails1(name) ==
  \/ "raster" \in data[name].fail.steps
  \/ \E f \in 1..MaxPages : AbortsAt(name, f)

\* the calls of write_text for a document processed alone, none of whose steps raises
AloneWrites(name) ==
  [k \in 1..Min(data[name].npages, cfg.max_pages) |->
     [name |-> name, page |-> k, path |-> OutPath(Stem(name), k), text |-> TextOf(name, k)]]

\* no other discovered document has the stem of this one
OwnStem(name) == \A other \in Discovered(data) : Stem(other) = Stem(name) => other = name

C1_Safe ==
  /\ \A name \in DOMAIN data : NCalls(name) <= (IF name \in Discovered(data) THEN 1 ELSE 0)
  /\ \A name \in Discovered(data) : ErrorsFor(name) <= 1
  /\ \A name \in Discovered(data) :
       (Finished(name) /\ Fails1(name)) =>
          /\ ErrorsFor(name) = 1
          /\ \E k \in Entries("Error processing", name) : log[k].level = "error"
  /\ \A name \in Discovered(data) :
       (Finished(name) /\ ~Fails1(name)) =>
          /\ WritesOf(name) = AloneWrites(name)
          /\ OwnStem(name) =>
               \A k \in 1..Len(AloneWrites(name)) :
                  /\ AloneWrites(name)[k].path \in DOMAIN disk
                  /\ disk[AloneWrites(name)[k].path] = AloneWrites(name)[k].text
  /\ pc = "done" =>
       /\ \A name \in Discovered(data) : NCalls(name) = 1 /\ Finished(name)
       /\ Len(calls) = Cardinality(Discovered(data))
       /\ log[Len(log)].msg = "All done"
  /\ pc \in {"start", "loop", "pages", "done"}
  /\ idx <= Len(pdfs) + 1
  /\ (pc = "pages" => idx <= Len(pdfs))

\* C1: whichever documents of a batch raise a rasterization, extraction or write
\* error, main calls process_pdf once for every discovered document, logs one error
\* naming each failing document, makes for every other document the calls of
\* write_text it makes for the document alone (whose files stay, when no other
\* document has its stem), and ends with the final 'All done': main is at a
\* position that has a next step until then, and every step prints a line.
C1_BatchIsolation == []C1_Safe /\ [][Len(log') > Len(log)]_vars

C1_Witness ==
  /\ pc = "done"
  /\ Len(pdfs) = 2
  /\ pdfs[1] = APdf /\ pdfs[2] = DotPdf
  /\ data[APdf].npages = 2 /\ data[APdf].fail = [page |-> 2, steps |-> {"ocr"}]
  /\ data[DotPdf].npages = 1 /\ data[DotPdf].fail = NoFail
  /\ ErrorsFor(APdf) = 1 /\ ErrorsFor(DotPdf) = 0
  /\ Len(WritesOf(APdf)) = 1 /\ Len(WritesOf(DotPdf)) = 1
  /\ log[Len(log)].msg = "All done"

====
